---- MODULE Spec2Model ----
(***************************************************************************)
(* Model of PipelineUtil.py: the server registry (class ExternalConfig,    *)
(* run_command) and the retrieval pipeline (main, retrieve_projects,       *)
(* retrieve_pipelines, retrieve_jobs).                                     *)
(*                                                                         *)
(* A Python dict is modelled as a sequence of entries in insertion order   *)
(* (dicts iterate in insertion order); a server's table is a record whose  *)
(* DOMAIN is the set of keys the table holds, so "'token' in values" is    *)
(* "token" \in DOMAIN values.                                              *)
(*                                                                         *)
(* The store file is a TOML file of the documented layout: a top-level     *)
(* table 'servers' whose entries hold 'url', optionally 'token' and        *)
(* optionally 'active'. tomli_w.dump / tomllib.load keep the tables, their *)
(* keys and their order, so the file is modelled by the table it holds.    *)
(*                                                                         *)
(* Six specifications share the variables: Spec is a sequence of           *)
(* invocations of run_command with main() as one step; SpecEmpty is the    *)
(* same from an empty store; SpecProjects is main() up to the result of    *)
(* retrieve_projects; SpecPipelines is retrieve_pipelines for one project, *)
(* one loop pass per step; SpecMain is the two loops of main() over the    *)
(* retrieved projects; SpecJobs is the job listing of one pipeline under   *)
(* any RunConfig.                                                          *)
(*                                                                         *)
(* The remote's pipeline listing is paged: the list call fetches the first *)
(* page, the iterator fetches each further page when the loop reaches it,  *)
(* and either request can fail.                                            *)
(***************************************************************************)
EXTENDS Integers, Sequences, FiniteSets, TLC

\* ------------------------------------------------------------------ bounds
\* Largest number of [servers.<alias>] tables in the store file the first
\* invocation finds.
MaxStored == 2

\* ------------------------------------------------------------ value spaces
\* Python's None (an absent command-line token, an unset environment variable).
None == "None"

Aliases == {"a", "b", "c"}
Urls == {"u1", "u2"}
\* args.token: absent (None), empty (as the tests pass it) or a real token.
ArgTokens == {None, "", "t1"}
\* The environment: both variables unset, or both set.
Environments ==
    { [url |-> None, token |-> None], [url |-> "env-url", token |-> "env-token"] }

\* The tables a store file may hold for one alias: url, an optional token and
\* an optional active flag.
StoredValues ==
    UNION { { [url |-> u], [url |-> u, token |-> "t1"] } : u \in Urls }
    \cup UNION { { [url |-> u, active |-> b],
                   [url |-> u, token |-> "t1", active |-> b] }
                 : u \in Urls, b \in BOOLEAN }

\* Sequences over S of length n without a repeated element.
RECURSIVE DistinctSeqs(_, _)
DistinctSeqs(S, n) ==
    IF n = 0 THEN { <<>> }
    ELSE UNION { { Append(s, x) : x \in S \ { s[i] : i \in DOMAIN s } }
                 : s \in DistinctSeqs(S, n - 1) }

\* Every 'servers' table of at most n entries, in every key order.
StoredServers(n) ==
    UNION { UNION { { [i \in 1..k |-> [alias |-> keys[i], values |-> vals[i]]]
                      : vals \in [1..k -> StoredValues] }
                    : keys \in DistinctSeqs(Aliases, k) }
            : k \in 0..n }

\* ---------------------------------------------------------- dict operations
\* dict.keys()
Keys(servers) == { servers[i].alias : i \in DOMAIN servers }

\* position of a key in iteration order
IndexOf(servers, alias) ==
    CHOOSE i \in DOMAIN servers : servers[i].alias = alias

\* Mutant of SetItem: the entry is appended even when the key exists.
SetItem_append(servers, alias, values) ==
    Append(servers, [alias |-> alias, values |-> values])

\* d[alias] = values: in place when the key exists, else appended.
SetItem(servers, alias, values) ==
    IF alias \in Keys(servers)
    THEN [servers EXCEPT ![IndexOf(servers, alias)].values = values]
    ELSE Append(servers, [alias |-> alias, values |-> values])

\* del d[alias]
DelItem(servers, alias) ==
    LET i == IndexOf(servers, alias)
    IN  SubSeq(servers, 1, i - 1) \o SubSeq(servers, i + 1, Len(servers))

\* table[key] = value on a server's table
SetKey(values, key, value) ==
    [k \in DOMAIN values \cup {key} |-> IF k = key THEN value ELSE values[k]]

\* 'active' in values and values['active']
IsActive(values) == "active" \in DOMAIN values /\ values.active

ActiveAliases(servers) ==
    { servers[i].alias : i \in { j \in DOMAIN servers : IsActive(servers[j].values) } }

\* -------------------------------------------------------------- the state
VARIABLES
    file_exists,    \* os.path.exists(config_file)
    file_servers,   \* the 'servers' table of the store file
    pc,             \* position in run_command
    args,           \* the argparse.Namespace of this invocation
    config,         \* ExternalConfig.config['servers']
    is_changed,     \* ExternalConfig.is_changed
    config_active,  \* run: the result of config.active_server()
    writes,         \* number of times this invocation wrote the store file
    run_config,     \* main: the RunConfig
    remote_projects,\* what gitlab.projects.list would yield, in remote order
    projects,       \* main: the list retrieve_projects returned
    p,              \* main: position of the outer loop in projects
    idx,            \* retrieve_pipelines: the loop's enumerate index
    taken,          \* entries the loop has taken from the pipeline iterator
    scanned,        \* those entries, in the order taken
    found,          \* retrieve_pipelines: the list of accepted pipelines
    q,              \* main: pipelines of found the inner loop has handled
    jobs_requested, \* main: pipeline q's jobs were requested from the remote
    link_shown,     \* main: pipeline q's web link was printed
    remote_jobs,    \* what pipeline.jobs.list() returned for pipeline q
    jobs,           \* what retrieve_jobs returned for pipeline q
    failure         \* the remote request that failed: "none", "list", "next", "jobs"

\* what main() holds about the pipeline it handled last
shown_vars == << q, jobs_requested, link_shown, remote_jobs, jobs >>

\* the state of main() and of the functions it calls
run_vars == << run_config, remote_projects, projects, p, idx, taken, scanned, found,
               shown_vars, failure >>

vars == << file_exists, file_servers, pc, args, config, is_changed,
           config_active, writes, run_vars >>

NoArgs == [which |-> "none"]

\* config_active before active_server() has run
NotResolved == [resolved |-> FALSE]

\* run_config before convert() has run
NoRunConfig == [converted |-> FALSE]

\* the inner loop of main() has handled no pipeline and no request has failed
JobsIdle ==
    /\ q = 0
    /\ jobs_requested = FALSE
    /\ link_shown = FALSE
    /\ remote_jobs = << >>
    /\ jobs = << >>
    /\ failure = "none"

\* main() has not started
RunIdle ==
    /\ JobsIdle
    /\ run_config = NoRunConfig
    /\ remote_projects = << >>
    /\ projects = << >>
    /\ p = 0
    /\ idx = 0
    /\ taken = 0
    /\ scanned = << >>
    /\ found = << >>

\* ExternalConfig.__load / __verify: the stored table, or {'servers': {}}.
Load == IF file_exists THEN file_servers ELSE << >>

\* ExternalConfig.__server(alias): the table, or None. None is modelled as
\* the table without keys: Python's "not x" holds of both, and a table of the
\* registry always holds 'url' (list_servers reads it unconditionally).
Server(servers, alias) ==
    IF alias \in Keys(servers) THEN servers[IndexOf(servers, alias)].values ELSE << >>

\* not self.__server(alias)
Unknown(servers, alias) == DOMAIN Server(servers, alias) = {}

\* ExternalConfig.__active_fallback
active_fallback(env) == [url |-> env.url, token |-> env.token]

\* Mutant of active_server: the environment is used only when the registry is
\* empty; with profiles but none active the first profile is returned.
active_server_first_profile(servers, env) ==
    LET filtered == SelectSeq(servers, LAMBDA e : IsActive(e.values))
    IN  IF filtered /= << >> THEN filtered[1].values
        ELSE IF servers /= << >> THEN servers[1].values
        ELSE active_fallback(env)

\* ExternalConfig.active_server: the first table marked active, else the
\* environment.
active_server(servers, env) ==
    LET filtered == SelectSeq(servers, LAMBDA e : IsActive(e.values))
    IN  IF filtered /= << >> THEN filtered[1].values ELSE active_fallback(env)

\* Mutant of create_server_config: the token key is stored whenever a token
\* argument is present, the empty one included ("is not None" for truthiness).
create_server_config_empty_token(a) ==
    IF a.token /= None
    THEN [url |-> a.url, active |-> TRUE, token |-> a.token]
    ELSE [url |-> a.url, active |-> TRUE]

\* ExternalConfig.__create_server_config
create_server_config(a) ==
    IF a.token /= None /\ a.token /= ""
    THEN [url |-> a.url, active |-> TRUE, token |-> a.token]
    ELSE [url |-> a.url, active |-> TRUE]

\* Mutant of switch_server: every table is rebuilt from its url and the new
\* flag, which drops a stored token.
switch_server_rebuild(servers, changed, alias) ==
    IF Unknown(servers, alias)
    THEN [servers |-> servers, is_changed |-> changed]
    ELSE [servers |->
            [i \in DOMAIN servers |->
                [servers[i] EXCEPT
                    !.values = [url |-> @.url, active |-> servers[i].alias = alias]]],
          is_changed |-> TRUE]

\* Mutant of switch_server: the target is marked active, the others are left
\* as they were.
switch_server_no_clear(servers, changed, alias) ==
    IF Unknown(servers, alias)
    THEN [servers |-> servers, is_changed |-> changed]
    ELSE [servers |->
            [servers EXCEPT ![IndexOf(servers, alias)].values = SetKey(@, "active", TRUE)],
          is_changed |-> TRUE]

\* ExternalConfig.switch_server; the result is the pair (servers, is_changed).
switch_server(servers, changed, alias) ==
    IF Unknown(servers, alias)
    THEN [servers |-> servers, is_changed |-> changed]
    ELSE [servers |->
            [i \in DOMAIN servers |->
                [servers[i] EXCEPT
                    !.values = SetKey(@, "active", servers[i].alias = alias)]],
          is_changed |-> TRUE]

\* Mutant of add_server: an existing table is updated key by key, so a stored
\* token survives an add without token.
add_server_merge(servers, changed, a) ==
    LET new == create_server_config(a)
        old == Server(servers, a.alias)
        merged == [k \in DOMAIN old \cup DOMAIN new |->
                      IF k \in DOMAIN new THEN new[k] ELSE old[k]]
    IN  switch_server(SetItem(servers, a.alias, merged), TRUE, a.alias)

\* Mutant of add_server: the entry is stored but switch_server is not called.
add_server_no_switch(servers, changed, a) ==
    [servers |-> SetItem(servers, a.alias, create_server_config(a)), is_changed |-> TRUE]

\* ExternalConfig.add_server
add_server(servers, changed, a) ==
    switch_server(SetItem(servers, a.alias, create_server_config(a)), TRUE, a.alias)

\* Mutant of remove_server: the last remaining profile is promoted.
remove_server_promote_last(servers, changed, alias) ==
    IF Unknown(servers, alias)
    THEN [servers |-> servers, is_changed |-> changed]
    ELSE LET rest == DelItem(servers, alias)
             any_active == \E i \in DOMAIN rest : IsActive(rest[i].values)
         IN  [servers |->
                IF ~any_active /\ Len(rest) > 0
                THEN [rest EXCEPT ![Len(rest)].values = SetKey(@, "active", TRUE)]
                ELSE rest,
              is_changed |-> TRUE]

\* Mutant of remove_server: no profile is promoted after the removal.
remove_server_no_repair(servers, changed, alias) ==
    IF Unknown(servers, alias)
    THEN [servers |-> servers, is_changed |-> changed]
    ELSE [servers |-> DelItem(servers, alias), is_changed |-> TRUE]

\* Mutant of remove_server: the dirty flag is set before the alias is looked up.
remove_server_dirty_first(servers, changed, alias) ==
    IF Unknown(servers, alias)
    THEN [servers |-> servers, is_changed |-> TRUE]
    ELSE LET rest == DelItem(servers, alias)
             any_active == \E i \in DOMAIN rest : IsActive(rest[i].values)
         IN  [servers |->
                IF ~any_active /\ Len(rest) > 0
                THEN [rest EXCEPT ![1].values = SetKey(@, "active", TRUE)]
                ELSE rest,
              is_changed |-> TRUE]

\* ExternalConfig.remove_server
remove_server(servers, changed, alias) ==
    IF Unknown(servers, alias)
    THEN [servers |-> servers, is_changed |-> changed]
    ELSE LET rest == DelItem(servers, alias)
             any_active == \E i \in DOMAIN rest :
                               "active" \in DOMAIN rest[i].values /\ rest[i].values.active
             any_remaining == Len(rest) > 0
         IN  [servers |->
                IF ~any_active /\ any_remaining
                THEN [rest EXCEPT ![1].values = SetKey(@, "active", TRUE)]
                ELSE rest,
              is_changed |-> TRUE]

\* ---------------------------------------------------------------- actions
Init ==
    /\ file_exists \in BOOLEAN
    /\ file_servers \in (IF file_exists THEN StoredServers(MaxStored) ELSE { << >> })
    /\ pc = "start"
    /\ args = NoArgs
    /\ config = << >>
    /\ is_changed = FALSE
    /\ config_active = NotResolved
    /\ writes = 0
    /\ RunIdle

\* A new process: run_command constructs ExternalConfig() (load, verify);
\* is_changed starts at its class default.
Construct ==
    /\ pc \in {"start", "done", "raised"}
    /\ pc' = "command"
    /\ args' = NoArgs
    /\ config' = Load
    /\ is_changed' = FALSE
    /\ config_active' = NotResolved
    /\ writes' = 0
    /\ UNCHANGED << file_exists, file_servers, run_vars >>

\* which == 'add'
AddServer ==
    /\ pc = "command"
    /\ \E alias \in Aliases, url \in Urls, token \in ArgTokens :
         LET a == [which |-> "add", alias |-> alias, url |-> url, token |-> token]
             r == add_server(config, is_changed, a)
         IN  /\ args' = a
             /\ config' = r.servers
             /\ is_changed' = r.is_changed
    /\ pc' = "update"
    /\ UNCHANGED << file_exists, file_servers, config_active, writes, run_vars >>

\* which == 'switch'
SwitchServer ==
    /\ pc = "command"
    /\ \E alias \in Aliases :
         LET r == switch_server(config, is_changed, alias)
         IN  /\ args' = [which |-> "switch", alias |-> alias]
             /\ config' = r.servers
             /\ is_changed' = r.is_changed
    /\ pc' = "update"
    /\ UNCHANGED << file_exists, file_servers, config_active, writes, run_vars >>

\* which == 'remove'
RemoveServer ==
    /\ pc = "command"
    /\ \E alias \in Aliases :
         LET r == remove_server(config, is_changed, alias)
         IN  /\ args' = [which |-> "remove", alias |-> alias]
             /\ config' = r.servers
             /\ is_changed' = r.is_changed
    /\ pc' = "update"
    /\ UNCHANGED << file_exists, file_servers, config_active, writes, run_vars >>

\* which == 'list': list_servers only prints.
ListServers ==
    /\ pc = "command"
    /\ args' = [which |-> "list"]
    /\ pc' = "update"
    /\ UNCHANGED << file_exists, file_servers, config, is_changed, config_active, writes, run_vars >>

\* which == 'run': resolve the active server, then main() runs to completion.
Run ==
    /\ pc = "command"
    /\ args' = [which |-> "run"]
    /\ \E env \in Environments : config_active' = active_server(config, env)
    /\ pc' = "update"
    /\ UNCHANGED << file_exists, file_servers, config, is_changed, writes, run_vars >>

\* which == 'run', and main() raises (a remote failure it does not catch):
\* the exception leaves run_command before config.update().
RunRaises ==
    /\ pc = "command"
    /\ args' = [which |-> "run"]
    /\ \E env \in Environments : config_active' = active_server(config, env)
    /\ pc' = "raised"
    /\ UNCHANGED << file_exists, file_servers, config, is_changed, writes, run_vars >>

\* Mutant of Update: the store is written whether or not the registry is dirty.
Update_unconditional ==
    /\ pc = "update"
    /\ pc' = "done"
    /\ file_exists' = TRUE
    /\ file_servers' = config
    /\ writes' = writes + 1
    /\ UNCHANGED << args, config, is_changed, config_active, run_vars >>

\* ExternalConfig.update
Update ==
    /\ pc = "update"
    /\ pc' = "done"
    /\ IF is_changed
       THEN /\ file_exists' = TRUE
            /\ file_servers' = config
            /\ writes' = writes + 1
       ELSE UNCHANGED << file_exists, file_servers, writes >>
    /\ UNCHANGED << args, config, is_changed, config_active, run_vars >>

Next ==
    \/ Construct
    \/ AddServer
    \/ SwitchServer
    \/ RemoveServer
    \/ ListServers
    \/ Run
    \/ RunRaises
    \/ Update

Spec == Init /\ [][Next]_vars

\* ============================================================ registry claims
\* The registry this invocation loaded. The file is only written by Update, so
\* up to and including pc = "update" it still holds what Construct loaded.
Loaded == Load

AtMostOneActive(servers) == Cardinality(ActiveAliases(servers)) <= 1

\* switch/remove of an alias that is a key of the loaded registry, or add
KnownAlias == args.which \in {"switch", "remove"} /\ args.alias \in Keys(Loaded)
UnknownAlias == args.which \in {"switch", "remove"} /\ args.alias \notin Keys(Loaded)

\* C1: at most one profile is active after any sequence of add, switch and
\* remove commands, started from a store with at most one active profile
\* (the empty store included). Stated inductively: no step of any invocation
\* leads from "store and registry hold at most one active profile" to a state
\* where either holds two.
C1_AtMostOneActive ==
    [][ (AtMostOneActive(file_servers) /\ AtMostOneActive(config))
        => (AtMostOneActive(file_servers') /\ AtMostOneActive(config')) ]_vars

\* C1 witness: a third profile had been added to the store by earlier
\* invocations, the only active profile was removed, and one profile is active.
C1_Witness ==
    /\ pc = "update" /\ args.which = "remove"
    /\ Len(Loaded) = 3
    /\ ActiveAliases(Loaded) = {args.alias}
    /\ Cardinality(ActiveAliases(config)) = 1

\* C2: remove of an existing alias deletes exactly that entry; if it was the
\* one active profile and others remain, exactly one profile is active
\* afterwards; if none remains, the registry is empty and nobody is promoted.
C2_RemoveRepairs ==
    (pc = "update" /\ args.which = "remove" /\ args.alias \in Keys(Loaded)) =>
        /\ Keys(config) = Keys(Loaded) \ {args.alias}
        /\ Len(config) = Len(Loaded) - 1
        /\ (ActiveAliases(Loaded) = {args.alias} /\ Len(config) > 0)
              => Cardinality(ActiveAliases(config)) = 1
        /\ Len(Loaded) = 1 => (config = << >> /\ ActiveAliases(config) = {})

\* C2 witness: the sole active profile of a two-profile registry was removed.
C2_Witness ==
    /\ pc = "update" /\ args.which = "remove"
    /\ Len(Loaded) = 2
    /\ ActiveAliases(Loaded) = {args.alias}
    /\ Len(config) = 1

\* C3: switch or remove of an unknown alias changes neither the registry nor
\* the dirty flag, raises nothing, and the persistence step that follows
\* writes nothing.
C3_UnknownAliasNoOp ==
    /\ args.which \in {"switch", "remove"} => pc \in {"update", "done"}
    /\ (pc = "update" /\ UnknownAlias) => (config = Loaded /\ is_changed = FALSE)
    /\ (pc = "done" /\ args.which \in {"switch", "remove"}
            /\ args.alias \notin Keys(config) /\ ~is_changed)
          => (writes = 0 /\ config = Loaded)

\* C3 witness: a switch to an alias the non-empty registry does not hold has
\* passed the persistence step without a write.
C3_Witness ==
    /\ pc = "done" /\ args.which = "switch"
    /\ args.alias \notin Keys(config)
    /\ Len(config) > 0
    /\ writes = 0

\* C4 as stated: the store is written at most once, only by the step after
\* the command, and never when the command left the registry identical to
\* what was loaded.
C4_Original ==
    [][ /\ writes' <= 1
        /\ writes' > writes => (pc = "update" /\ pc' = "done")
        /\ (pc = "update" /\ config = Loaded) => writes' = writes ]_vars

\* C4 amended: the store is written at most once, only by the step after the
\* command, and exactly when the command was an add or a switch/remove of a
\* known alias (also when that command left the contents as loaded); list,
\* run and a switch/remove of an unknown alias write nothing.
C4_WriteOnceIfDirty ==
    [][ /\ writes' <= 1
        /\ (writes' > writes \/ file_servers' /= file_servers \/ file_exists' /= file_exists)
              => (pc = "update" /\ pc' = "done")
        /\ pc = "update" =>
              ((writes' = writes + 1) <=> (args.which = "add" \/ KnownAlias))
        /\ (pc = "update" /\ writes' = writes + 1) => (file_exists' /\ file_servers' = config)
      ]_vars

\* C4 witness: a switch to the already active alias left the registry as
\* loaded, and the store was written.
C4_Witness ==
    /\ pc = "done" /\ args.which = "switch"
    /\ args.alias \in ActiveAliases(config)
    /\ writes = 1

\* C5: after add the alias exists with the given url, has a token exactly when
\* a non-empty token was given, is the only active profile, and the registry
\* is dirty; on an empty registry add without token yields exactly that entry.
C5_AddResult ==
    (pc = "update" /\ args.which = "add") =>
        LET v == Server(config, args.alias)
            given == args.token /= None /\ args.token /= ""
        IN  /\ args.alias \in Keys(config)
            /\ v.url = args.url
            /\ ("token" \in DOMAIN v) <=> given
            /\ given => v.token = args.token
            /\ "active" \in DOMAIN v /\ v.active = TRUE
            /\ ActiveAliases(config) = {args.alias}
            /\ \A i \in DOMAIN config :
                  config[i].alias /= args.alias
                     => ("active" \in DOMAIN config[i].values /\ ~config[i].values.active)
            /\ is_changed
            /\ (Loaded = << >> /\ ~given)
                  => config = << [alias |-> args.alias,
                                  values |-> [url |-> args.url, active |-> TRUE]] >>

\* C5 witness: add without a token updated a stored profile that had a token,
\* while another profile was the active one.
C5_Witness ==
    /\ pc = "update" /\ args.which = "add" /\ args.token = ""
    /\ args.alias \in Keys(Loaded)
    /\ "token" \in DOMAIN Server(Loaded, args.alias)
    /\ ActiveAliases(Loaded) /= {}
    /\ args.alias \notin ActiveAliases(Loaded)

\* C6: switch to an alias of the registry leaves it the only active profile
\* and sets the dirty flag, whatever the stored active flags were.
C6_SwitchResult ==
    (pc = "update" /\ args.which = "switch" /\ args.alias \in Keys(Loaded)) =>
        /\ ActiveAliases(config) = {args.alias}
        /\ is_changed

\* C6 witness: the loaded store marked two profiles active and the switch
\* went to the second of them.
C6_Witness ==
    /\ pc = "update" /\ args.which = "switch"
    /\ Cardinality(ActiveAliases(Loaded)) = 2
    /\ Len(Loaded) >= 2 /\ args.alias = Loaded[2].alias

\* The values active_server can take from the environment.
Fallbacks == { active_fallback(env) : env \in Environments }

RunResolved == args.which = "run" /\ pc \in {"update", "raised"}

\* C7 as stated: the active profile is returned whenever one exists, and the
\* environment is used only when the registry holds no profile at all.
C7_Original ==
    RunResolved =>
        /\ ActiveAliases(config) /= {}
              => \E i \in DOMAIN config :
                    IsActive(config[i].values) /\ config_active = config[i].values
        /\ config_active \in Fallbacks => config = << >>

\* C7 amended: the first profile marked active is returned whenever one
\* exists, and the environment is used whenever no profile is marked active,
\* whether or not the registry holds profiles.
C7_ResolveActive ==
    RunResolved =>
        /\ ActiveAliases(config) /= {}
              => \E i \in DOMAIN config :
                    /\ IsActive(config[i].values)
                    /\ \A j \in 1..(i - 1) : ~IsActive(config[j].values)
                    /\ config_active = config[i].values
        /\ ActiveAliases(config) = {} <=> config_active \in Fallbacks

\* C7 witness: the registry holds profiles, none is marked active, and the
\* run resolved to the environment's url.
C7_Witness ==
    /\ RunResolved
    /\ Len(config) = 2
    /\ ActiveAliases(config) = {}
    /\ config_active = [url |-> "env-url", token |-> "env-token"]

\* --------------------------------------------- registry claims, continued
\* An invocation sequence that starts without a store file.
InitEmpty ==
    /\ file_exists = FALSE
    /\ file_servers = << >>
    /\ pc = "start"
    /\ args = NoArgs
    /\ config = << >>
    /\ is_changed = FALSE
    /\ config_active = NotResolved
    /\ writes = 0
    /\ RunIdle

SpecEmpty == InitEmpty /\ [][Next]_vars

\* What a profile is apart from its active flag: alias, url and token.
UrlToken(values) ==
    [url |-> values.url,
     token |-> IF "token" \in DOMAIN values THEN values.token ELSE None]
Profiles(servers) ==
    [i \in DOMAIN servers |->
        [alias |-> servers[i].alias, profile |-> UrlToken(servers[i].values)]]

AddDone == pc = "update" /\ args.which = "add"
TokenGiven == args.token /= None /\ args.token /= ""

\* C15: add is idempotent: adding the same alias, url and token once more to
\* the registry an add has produced yields that same registry, in the same
\* order and with the same flags.
C15_AddIdempotent ==
    AddDone =>
        LET again == add_server(config, is_changed, args)
        IN  /\ again.servers = config
            /\ Profiles(again.servers) = Profiles(config)
            /\ again.is_changed = is_changed

\* C15 witness: the add updated a profile that was stored with another url,
\* in a registry of two profiles.
C15_Witness ==
    /\ AddDone
    /\ Len(Loaded) = 2 /\ Len(config) = 2
    /\ args.alias = Loaded[1].alias
    /\ Loaded[1].values.url /= args.url

\* C16 as stated: an add without token on a profile with a stored token
\* leaves the stored token in place.
C16_Original ==
    (AddDone /\ args.alias \in Keys(Loaded) /\ ~TokenGiven
        /\ "token" \in DOMAIN Server(Loaded, args.alias))
    => /\ "token" \in DOMAIN Server(config, args.alias)
       /\ Server(config, args.alias).token = Server(Loaded, args.alias).token

\* C16 amended: add on an existing alias keeps the profile's place in the key
\* order and every other profile's url and token, and replaces the profile's
\* table as a whole: afterwards it holds the given url, the active flag and a
\* token exactly when the call gave one, so a stored token is dropped by an add
\* without token.
C16_AddReplaces ==
    (AddDone /\ args.alias \in Keys(Loaded)) =>
        LET i == IndexOf(Loaded, args.alias)
            v == config[i].values
        IN  /\ Len(config) = Len(Loaded)
            /\ config[i].alias = args.alias
            /\ DOMAIN v = (IF TokenGiven THEN {"url", "active", "token"}
                                         ELSE {"url", "active"})
            /\ v.url = args.url
            /\ TokenGiven => v.token = args.token
            /\ \A j \in DOMAIN Loaded :
                  j /= i => Profiles(config)[j] = Profiles(Loaded)[j]

\* C16 witness: an add without token has replaced a profile that was stored
\* with a token, and the profile holds no token.
C16_Witness ==
    /\ AddDone /\ args.token = None
    /\ args.alias \in Keys(Loaded)
    /\ "token" \in DOMAIN Server(Loaded, args.alias)
    /\ "token" \notin DOMAIN Server(config, args.alias)

RemoveDone == pc = "update" /\ args.which = "remove" /\ args.alias \in Keys(Loaded)

\* The first alias of the loaded registry other than the removed one.
FirstRemaining ==
    Loaded[IF Loaded[1].alias = args.alias THEN 2 ELSE 1].alias

\* C17: when a remove leaves no active profile and a profile remains, the
\* promoted profile is the first remaining one in the registry's key order.
C17_PromotesFirst ==
    (RemoveDone /\ Len(Loaded) >= 2 /\ ActiveAliases(Loaded) \subseteq {args.alias})
    => /\ ActiveAliases(config) = {FirstRemaining}
       /\ config[1].alias = FirstRemaining

\* C17 witness: of three profiles stored in the order c, b, a the active b was
\* removed, and c, not a, was promoted.
C17_Witness ==
    /\ RemoveDone
    /\ Len(Loaded) = 3
    /\ Loaded[1].alias = "c" /\ Loaded[2].alias = "b" /\ Loaded[3].alias = "a"
    /\ args.alias = "b"
    /\ ActiveAliases(Loaded) = {"b"}
    /\ ActiveAliases(config) = {"c"}

ExactlyOneActiveIfAny(servers) ==
    Len(servers) > 0 => Cardinality(ActiveAliases(servers)) = 1

\* C18: started from the empty registry, a non-empty registry always holds
\* exactly one active profile, so resolving the active profile uses the
\* environment only when the registry is empty.
C18_OneActiveFromEmpty ==
    /\ ExactlyOneActiveIfAny(file_servers)
    /\ ExactlyOneActiveIfAny(config)
    /\ (RunResolved /\ config_active \in Fallbacks) => config = << >>
    /\ (RunResolved /\ config /= << >>) =>
          \E i \in DOMAIN config : IsActive(config[i].values)
                                      /\ config_active = config[i].values

\* C18 witness: after adds and the removal of the active profile, a run
\* resolved to the promoted profile of a two-profile registry.
C18_Witness ==
    /\ RunResolved
    /\ Len(config) = 2
    /\ ActiveAliases(config) = {config[1].alias}
    /\ config[2].values.active = FALSE
    /\ config[1].alias = "b" /\ config[2].alias = "c"
    /\ config_active = config[1].values

\* C19: switch changes neither the aliases, their order, nor any url or
\* token; remove deletes the named alias only and changes no url or token of
\* the rest; removing an inactive profile while another is active changes no
\* flag either, so the active profile stays and nobody is promoted.
C19_Frame ==
    /\ (pc = "update" /\ args.which = "switch") => Profiles(config) = Profiles(Loaded)
    /\ RemoveDone =>
          /\ Profiles(config) =
                SelectSeq(Profiles(Loaded), LAMBDA e : e.alias /= args.alias)
          /\ (ActiveAliases(Loaded) \ {args.alias} /= {})
                => /\ config = SelectSeq(Loaded, LAMBDA e : e.alias /= args.alias)
                   /\ ActiveAliases(config) = ActiveAliases(Loaded) \ {args.alias}

\* C19 witness: a switch between two stored profiles that both hold a token.
C19_Witness ==
    /\ pc = "update" /\ args.which = "switch"
    /\ Len(Loaded) = 2
    /\ \A i \in DOMAIN Loaded : "token" \in DOMAIN Loaded[i].values
    /\ args.alias = Loaded[2].alias
    /\ ActiveAliases(Loaded) = {Loaded[1].alias}
    /\ ActiveAliases(config) = {Loaded[2].alias}

\* ===================================================== the retrieval pipeline
\* ------------------------------------------------------------------ bounds
\* Largest --limit-projects, --limit-pipelines and
\* --limit-pipelines-search-depth an invocation passes.
MaxLimitProjects == 3
MaxLimitPipelines == 2
MaxDepth == 2
\* Longest project list the remote service yields, and the number of distinct
\* namespaced names among its projects.
MaxRemoteProjects == 3
NumNames == 3

\* ------------------------------------------------------------ value spaces
\* A string the code searches in or for is a sequence of characters. An absent
\* filter (None) and the empty string are both the empty sequence: the code
\* only tests them with "not".
NoFilter == << >>
Refs == { <<"a">>, <<"b">>, <<"a", "b">> }
RefFilters == { NoFilter, <<"b">>, <<"a", "b">> }
PipelineStatuses == { "success", "canceled", "failed" }

\* A namespaced project name is represented by its rank in ascending order.
ProjectNames == 1..NumNames

\* Sequences over S of length at most n.
RECURSIVE SeqsUpTo(_, _)
SeqsUpTo(S, n) ==
    IF n = 0 THEN { << >> }
    ELSE LET shorter == SeqsUpTo(S, n - 1)
         IN  shorter \cup { Append(s, x) : s \in { t \in shorter : Len(t) = n - 1 }, x \in S }

\* What gitlab.projects.list(iterator=True, ...) can yield: projects in the
\* remote's order; a project's id is its position in that order.
RemoteProjectLists ==
    { [i \in DOMAIN names |-> [id |-> i, name_with_namespace |-> names[i]]]
      : names \in SeqsUpTo(ProjectNames, MaxRemoteProjects) }

\* argparse's Namespace of a 'run' invocation
RunArgs(limit_projects, limit_pipelines, depth, references, verbose) ==
    [ which |-> "run", projects |-> NoFilter, references |-> references,
      limit_projects |-> limit_projects, limit_pipelines |-> limit_pipelines,
      limit_pipelines_search_depth |-> depth, verbose |-> verbose ]

\* Mutant of convert: verbose does not reset failed_hide_jobs_okay.
convert_keeps_hide_okay(active, a) ==
    [ url |-> active.url,
      token |-> IF "token" \in DOMAIN active THEN active.token ELSE None,
      filter_project |-> a.projects,
      filter_pipelines |-> a.references,
      limit_projects |-> a.limit_projects,
      limit_pipelines |-> a.limit_pipelines,
      limit_pipelines_depth |-> a.limit_pipelines_search_depth,
      failed_show_link |-> a.verbose,
      failed_hide_jobs_all |-> ~a.verbose,
      failed_hide_jobs_okay |-> TRUE ]

\* convert: the RunConfig of the active server and the arguments
convert(active, a) ==
    [ url |-> active.url,
      token |-> IF "token" \in DOMAIN active THEN active.token ELSE None,
      filter_project |-> a.projects,
      filter_pipelines |-> a.references,
      limit_projects |-> a.limit_projects,
      limit_pipelines |-> a.limit_pipelines,
      limit_pipelines_depth |-> a.limit_pipelines_search_depth,
      failed_show_link |-> a.verbose,
      failed_hide_jobs_all |-> ~a.verbose,
      failed_hide_jobs_okay |-> ~a.verbose ]

\* ------------------------------------------------------- pure functions
Min(a, b) == IF a <= b THEN a ELSE b

\* itertools.islice(iterable, n): the first n items, fewer if it ends.
islice(s, n) == SubSeq(s, 1, Min(n, Len(s)))

\* x placed behind every element of the sorted s whose key is not larger.
RECURSIVE InsertByName(_, _)
InsertByName(x, s) ==
    IF s = << >> THEN << x >>
    ELSE IF s[Len(s)].name_with_namespace <= x.name_with_namespace
         THEN Append(s, x)
         ELSE Append(InsertByName(x, SubSeq(s, 1, Len(s) - 1)), s[Len(s)])

\* sorted(projects, key=lambda p: p.name_with_namespace): ascending, stable.
RECURSIVE sorted_by_name(_)
sorted_by_name(s) ==
    IF s = << >> THEN << >>
    ELSE InsertByName(s[Len(s)], sorted_by_name(SubSeq(s, 1, Len(s) - 1)))

\* Mutant of retrieve_projects: the remote list is sorted before it is cut.
retrieve_projects_sort_first(remote, rc) ==
    islice(sorted_by_name(remote), rc.limit_projects)

\* retrieve_projects
retrieve_projects(remote, rc) ==
    sorted_by_name(islice(remote, rc.limit_projects))

\* needle in haystack, on strings
Contains(haystack, needle) ==
    \E i \in 0..(Len(haystack) - Len(needle)) :
        SubSeq(haystack, i + 1, i + Len(needle)) = needle

\* not config.filter_pipelines or config.filter_pipelines in pipeline.ref
Accepts(rc, pipeline) ==
    rc.filter_pipelines = << >> \/ Contains(pipeline.ref, rc.filter_pipelines)

\* ---------------------------------------------------------------- actions
\* main: gitlab = connect(config)
Connect ==
    /\ pc = "main"
    /\ pc' = "connected"
    /\ UNCHANGED << file_exists, file_servers, args, config, is_changed,
                    config_active, writes, run_vars >>

\* main: the call of retrieve_projects; the outer loop starts at its result.
RetrieveProjects ==
    /\ pc = "connected"
    /\ \E remote \in RemoteProjectLists :
          /\ remote_projects' = remote
          /\ projects' = retrieve_projects(remote, run_config)
    /\ p' = 1
    /\ pc' = "project"
    /\ UNCHANGED << file_exists, file_servers, args, config, is_changed,
                    config_active, writes, run_config, idx, taken, scanned, found,
                    shown_vars, failure >>

\* retrieve_pipelines: project.pipelines.list(iterator=True) returns the lazy
\* iterator; the loop starts.
ListPipelines ==
    /\ pc = "project"
    /\ p <= Len(projects)
    /\ idx' = 0
    /\ taken' = 0
    /\ scanned' = << >>
    /\ found' = << >>
    /\ pc' = "scan"
    /\ UNCHANGED << file_exists, file_servers, args, config, is_changed,
                    config_active, writes, run_config, remote_projects, projects, p,
                    shown_vars, failure >>

\* retrieve_pipelines: the list call raises GitlabListError; [] is returned.
ListPipelinesFails ==
    /\ pc = "project"
    /\ p <= Len(projects)
    /\ idx' = 0
    /\ taken' = 0
    /\ scanned' = << >>
    /\ found' = << >>
    /\ pc' = "pipeline"
    /\ failure' = "list"
    /\ UNCHANGED << file_exists, file_servers, args, config, is_changed,
                    config_active, writes, run_config, remote_projects, projects, p,
                    shown_vars >>

\* retrieve_pipelines: one pass of "for idx, pipeline in enumerate(iterator)".
\* enumerate takes the next entry from the iterator before the body tests idx;
\* the iterator never yields None. The remote sequence is lazy and need not
\* end: an entry is available whenever the loop asks.
IteratorNext ==
    /\ pc = "scan"
    /\ \E ref \in Refs, status \in PipelineStatuses :
         LET pipeline == [id |-> taken + 1, ref |-> ref, status |-> status]
             accepted == IF Accepts(run_config, pipeline)
                         THEN Append(found, pipeline) ELSE found
         IN  /\ taken' = taken + 1
             /\ scanned' = Append(scanned, pipeline)
             /\ IF idx >= run_config.limit_pipelines_depth
                THEN \* break: no more pipelines
                     /\ found' = found
                     /\ idx' = idx
                     /\ pc' = "pipeline"
                ELSE /\ found' = accepted
                     /\ IF Len(accepted) >= run_config.limit_pipelines
                        THEN \* break: enough pipelines found
                             /\ idx' = idx
                             /\ pc' = "pipeline"
                        ELSE /\ idx' = idx + 1
                             /\ pc' = "scan"
    /\ UNCHANGED << file_exists, file_servers, args, config, is_changed,
                    config_active, writes, run_config, remote_projects, projects, p,
                    shown_vars, failure >>

\* retrieve_pipelines: the iterator is exhausted, the loop ends.
IteratorStop ==
    /\ pc = "scan"
    /\ pc' = "pipeline"
    /\ UNCHANGED << file_exists, file_servers, args, config, is_changed,
                    config_active, writes, run_vars >>

\* The registry side of an invocation that has reached main().
InMain(a) ==
    /\ file_exists = FALSE
    /\ file_servers = << >>
    /\ args = a
    /\ config = << >>
    /\ is_changed = FALSE
    /\ config_active \in Fallbacks
    /\ writes = 0
    /\ run_config = convert(config_active, a)

\* Project discovery: main() entered with any --limit-projects.
InitProjects ==
    /\ \E n \in 0..MaxLimitProjects : InMain(RunArgs(n, 1, 1, NoFilter, FALSE))
    /\ pc = "main"
    /\ JobsIdle
    /\ remote_projects = << >>
    /\ projects = << >>
    /\ p = 0
    /\ idx = 0
    /\ taken = 0
    /\ scanned = << >>
    /\ found = << >>

NextProjects ==
    \/ Connect
    \/ RetrieveProjects

SpecProjects == InitProjects /\ [][NextProjects]_vars

\* Pipeline discovery for one project: the outer loop of main() stands at a
\* project, with any --limit-pipelines, search depth and ref filter.
InitPipelines ==
    /\ \E n \in 0..MaxLimitPipelines, d \in 0..MaxDepth, f \in RefFilters :
          InMain(RunArgs(1, n, d, f, FALSE))
    /\ pc = "project"
    /\ JobsIdle
    /\ remote_projects = << [id |-> 1, name_with_namespace |-> 1] >>
    /\ projects = remote_projects
    /\ p = 1
    /\ idx = 0
    /\ taken = 0
    /\ scanned = << >>
    /\ found = << >>

NextPipelines ==
    \/ ListPipelines
    \/ ListPipelinesFails
    \/ IteratorNext
    \/ IteratorStop

SpecPipelines == InitPipelines /\ [][NextPipelines]_vars

\* ============================================================ retrieval claims
NamesOf(s) == [i \in DOMAIN s |-> s[i].name_with_namespace]
IsAscending(s) == \A i, j \in DOMAIN s : i < j => s[i] <= s[j]
Range(s) == { s[i] : i \in DOMAIN s }

ProjectsRetrieved == pc = "project" /\ p = 1 /\ Len(scanned) = 0

\* C8 as stated: project discovery returns at most n projects, ascending by
\* name, and they carry the n smallest names among all the projects the remote
\* service yields (all of them if fewer than n exist).
C8_Original ==
    ProjectsRetrieved =>
        /\ Len(projects) = Min(run_config.limit_projects, Len(remote_projects))
        /\ IsAscending(NamesOf(projects))
        /\ Range(projects) \subseteq Range(remote_projects)
        /\ \A r \in Range(remote_projects) \ Range(projects) :
              \A x \in Range(projects) : x.name_with_namespace <= r.name_with_namespace

\* C8 amended: project discovery returns at most n projects, ascending by
\* name (equal names in remote order), and they are exactly the first n
\* projects in the remote service's own order (all of them if fewer than n
\* exist): the list is cut first and sorted afterwards.
C8_TruncateThenSort ==
    ProjectsRetrieved =>
        LET n == Min(run_config.limit_projects, Len(remote_projects))
        IN  /\ Len(projects) = n
            /\ Len(projects) <= run_config.limit_projects
            /\ IsAscending(NamesOf(projects))
            /\ Range(projects) = { remote_projects[i] : i \in 1..n }
            /\ \A i, j \in DOMAIN projects :
                  (i < j /\ projects[i].name_with_namespace = projects[j].name_with_namespace)
                     => projects[i].id < projects[j].id

\* C8 witness: the remote yields three projects, the limit is two, the third
\* project has the smallest name and the first two arrive in descending order.
C8_Witness ==
    /\ ProjectsRetrieved
    /\ run_config.limit_projects = 2
    /\ Len(remote_projects) = 3
    /\ remote_projects[3].name_with_namespace < remote_projects[2].name_with_namespace
    /\ remote_projects[2].name_with_namespace < remote_projects[1].name_with_namespace
    /\ projects = << remote_projects[2], remote_projects[1] >>

\* C9: pipeline discovery of one project never takes more than maxScanDepth
\* entries from the lazy remote sequence, whatever maxPipelines, the ref
\* filter and the remote sequence are.
C9_DepthLaw ==
    taken <= run_config.limit_pipelines_depth

\* What the loop does guarantee: at most maxScanDepth entries are tested
\* against the filter, and at most one more is taken from the sequence.
DepthPlusOne ==
    /\ idx <= run_config.limit_pipelines_depth
    /\ taken <= run_config.limit_pipelines_depth + 1
    /\ Len(found) <= run_config.limit_pipelines_depth

\* C10: pipeline discovery never holds more than maxPipelines pipelines, for
\* every maxPipelines >= 0, and once maxPipelines accepted pipelines are
\* collected no further entry is taken from the remote sequence.
C10_LimitLaw ==
    [][ /\ Len(found') <= run_config.limit_pipelines
        /\ Len(found) >= run_config.limit_pipelines => taken' = taken ]_vars

\* The same with maxPipelines >= 1, where the loop does keep it.
LimitLawPositive ==
    [][ run_config.limit_pipelines >= 1 =>
          /\ Len(found') <= run_config.limit_pipelines
          /\ Len(found) >= run_config.limit_pipelines => taken' = taken ]_vars

\* retrieve_pipelines has returned found
PipelinesReturned == pc = "pipeline"

\* found is scanned with entries left out: each found pipeline is the scanned
\* entry of its position, and the positions ascend.
IsScannedSubsequence ==
    /\ \A i \in DOMAIN found :
          found[i].id \in DOMAIN scanned /\ scanned[found[i].id] = found[i]
    /\ \A i, j \in DOMAIN found : i < j => found[i].id < found[j].id

\* The remote sequence holds at least the entries taken; when a break ended the
\* loop, min(maxPipelines, maxScanDepth, length) is the same for every such
\* length.
FilterLawFor(rc) ==
    /\ IsScannedSubsequence
    /\ rc.filter_pipelines /= << >>
          => \A i \in DOMAIN found : Contains(found[i].ref, rc.filter_pipelines)
    /\ rc.filter_pipelines = << >>
          => found = SubSeq(scanned, 1,
                            Min(rc.limit_pipelines,
                                Min(rc.limit_pipelines_depth, Len(scanned))))

\* C11: the returned list is an order-preserving subsequence of the scanned
\* entries; with a ref filter every returned pipeline's ref contains it;
\* without one the result is the first min(maxPipelines, maxScanDepth, length)
\* remote entries in remote order.
C11_FilterLaw ==
    PipelinesReturned => FilterLawFor(run_config)

\* The same with maxPipelines >= 1, where the loop does keep it.
FilterLawPositive ==
    (PipelinesReturned /\ run_config.limit_pipelines >= 1) => FilterLawFor(run_config)

\* ======================================================== the loops of main
\* ------------------------------------------------------------------ bounds
\* Longest job list of a pipeline, and the number of distinct creation times.
MaxJobs == 3
NumTimes == 2

JobStatuses == { "success", "skipped", "failed" }

\* What pipeline.jobs.list() can return: jobs in the remote's order; a job's id
\* is its position in that order, created_at a time stamp.
RemoteJobLists ==
    { [i \in DOMAIN js |-> [id |-> i, status |-> js[i][1], created_at |-> js[i][2]]]
      : js \in SeqsUpTo(JobStatuses \X (1..NumTimes), MaxJobs) }

\* Mutant of is_okay: a canceled pipeline is not okay.
is_okay_success_only(pipeline) == pipeline.status = "success"

\* is_okay
is_okay(pipeline) == pipeline.status \in { "success", "canceled" }

\* x placed behind every element of the sorted s that was not created later.
RECURSIVE InsertByCreatedAt(_, _)
InsertByCreatedAt(x, s) ==
    IF s = << >> THEN << x >>
    ELSE IF s[Len(s)].created_at <= x.created_at
         THEN Append(s, x)
         ELSE Append(InsertByCreatedAt(x, SubSeq(s, 1, Len(s) - 1)), s[Len(s)])

\* sorted(pipeline.jobs.list(), key=lambda j: j.created_at): ascending, stable.
RECURSIVE sorted_by_created_at(_)
sorted_by_created_at(s) ==
    IF s = << >> THEN << >>
    ELSE InsertByCreatedAt(s[Len(s)], sorted_by_created_at(SubSeq(s, 1, Len(s) - 1)))

\* Mutant of retrieve_jobs: with 'hide okay jobs' only successful jobs are
\* left out.
retrieve_jobs_hides_success_only(remote, rc) ==
    LET sorted_jobs == sorted_by_created_at(remote)
    IN  IF ~rc.failed_hide_jobs_okay THEN sorted_jobs
        ELSE SelectSeq(sorted_jobs, LAMBDA j : j.status /= "success")

\* retrieve_jobs
retrieve_jobs(remote, rc) ==
    LET sorted_jobs == sorted_by_created_at(remote)
    IN  IF ~rc.failed_hide_jobs_okay THEN sorted_jobs
        ELSE SelectSeq(sorted_jobs, LAMBDA j : j.status \notin { "skipped", "success" })

\* main: not is_okay(pipeline) and not config.failed_hide_jobs_all
WantsJobs(rc, pipeline) == ~is_okay(pipeline) /\ ~rc.failed_hide_jobs_all

\* ---------------------------------------------------------------- actions
\* retrieve_pipelines: the iterator has to request a further page from the
\* remote and the request fails. The first page came with the list call, so
\* this happens only behind an entry. The loop is outside the try block: the
\* error leaves retrieve_pipelines and main.
IteratorRaises ==
    /\ pc = "scan"
    /\ taken >= 1
    /\ failure' = "next"
    /\ pc' = "raised"
    /\ UNCHANGED << file_exists, file_servers, args, config, is_changed,
                    config_active, writes, run_config, remote_projects, projects, p,
                    idx, taken, scanned, found, shown_vars >>

\* main: one pass of "for pipeline in retrieve_pipelines(...)": the pipeline
\* line, and for a pipeline that wants them the link line and the jobs.
ShowPipeline ==
    /\ pc = "pipeline"
    /\ q < Len(found)
    /\ q' = q + 1
    /\ IF WantsJobs(run_config, found[q + 1])
       THEN /\ link_shown' = run_config.failed_show_link
            /\ jobs_requested' = TRUE
            /\ \E remote \in RemoteJobLists :
                  /\ remote_jobs' = remote
                  /\ jobs' = retrieve_jobs(remote, run_config)
       ELSE /\ link_shown' = FALSE
            /\ jobs_requested' = FALSE
            /\ remote_jobs' = << >>
            /\ jobs' = << >>
    /\ UNCHANGED << file_exists, file_servers, pc, args, config, is_changed,
                    config_active, writes, run_config, remote_projects, projects, p,
                    idx, taken, scanned, found, failure >>

\* main: the same pass when pipeline.jobs.list() raises; nothing catches it.
JobsRaise ==
    /\ pc = "pipeline"
    /\ q < Len(found)
    /\ WantsJobs(run_config, found[q + 1])
    /\ q' = q + 1
    /\ link_shown' = run_config.failed_show_link
    /\ jobs_requested' = TRUE
    /\ remote_jobs' = << >>
    /\ jobs' = << >>
    /\ failure' = "jobs"
    /\ pc' = "raised"
    /\ UNCHANGED << file_exists, file_servers, args, config, is_changed,
                    config_active, writes, run_config, remote_projects, projects, p,
                    idx, taken, scanned, found >>

\* main: the inner loop is through, the outer loop moves to the next project.
NextProject ==
    /\ pc = "pipeline"
    /\ q = Len(found)
    /\ p' = p + 1
    /\ pc' = "project"
    /\ idx' = 0
    /\ taken' = 0
    /\ scanned' = << >>
    /\ found' = << >>
    /\ q' = 0
    /\ jobs_requested' = FALSE
    /\ link_shown' = FALSE
    /\ remote_jobs' = << >>
    /\ jobs' = << >>
    /\ failure' = "none"
    /\ UNCHANGED << file_exists, file_servers, args, config, is_changed,
                    config_active, writes, run_config, remote_projects, projects >>

\* main: the outer loop is through, main returns.
MainReturns ==
    /\ pc = "project"
    /\ p > Len(projects)
    /\ pc' = "finished"
    /\ UNCHANGED << file_exists, file_servers, args, config, is_changed,
                    config_active, writes, run_vars >>

\* The loops of main for a run the command dispatcher started, verbose or
\* not, with a reference filter and one pipeline wanted of each project:
\* retrieve_projects has returned two projects.
InitMain ==
    /\ \E verbose \in BOOLEAN : InMain(RunArgs(2, 1, 2, <<"b">>, verbose))
    /\ pc = "project"
    /\ JobsIdle
    /\ remote_projects = << [id |-> 1, name_with_namespace |-> 2],
                            [id |-> 2, name_with_namespace |-> 1] >>
    /\ projects = retrieve_projects(remote_projects, run_config)
    /\ p = 1
    /\ idx = 0
    /\ taken = 0
    /\ scanned = << >>
    /\ found = << >>

NextMain ==
    \/ ListPipelines
    \/ ListPipelinesFails
    \/ IteratorNext
    \/ IteratorStop
    \/ IteratorRaises
    \/ ShowPipeline
    \/ JobsRaise
    \/ NextProject
    \/ MainReturns

SpecMain == InitMain /\ [][NextMain]_vars

\* Job discovery for one pipeline under any RunConfig, the three flags set
\* independently: the inner loop of main stands at the pipeline.
InitJobs ==
    /\ \E show_link \in BOOLEAN, hide_all \in BOOLEAN, hide_okay \in BOOLEAN :
          /\ file_exists = FALSE
          /\ file_servers = << >>
          /\ args = RunArgs(1, 1, 1, NoFilter, FALSE)
          /\ config = << >>
          /\ is_changed = FALSE
          /\ config_active \in Fallbacks
          /\ writes = 0
          /\ run_config = [convert(config_active, args) EXCEPT
                              !.failed_show_link = show_link,
                              !.failed_hide_jobs_all = hide_all,
                              !.failed_hide_jobs_okay = hide_okay]
    /\ pc = "pipeline"
    /\ JobsIdle
    /\ remote_projects = << [id |-> 1, name_with_namespace |-> 1] >>
    /\ projects = remote_projects
    /\ p = 1
    /\ idx = 0
    /\ taken = 1
    /\ \E status \in PipelineStatuses :
          scanned = << [id |-> 1, ref |-> <<"a">>, status |-> status] >>
    /\ found = scanned

NextJobs ==
    \/ ShowPipeline
    \/ JobsRaise

SpecJobs == InitJobs /\ [][NextJobs]_vars

\* ------------------------------------------------- claims about the loops
\* The pipeline the inner loop of main handled last.
Handled == found[q]

PipelineHandled == pc \in { "pipeline", "raised" } /\ q >= 1

\* C12: a failure of the pipeline listing of a project, at whatever point of
\* the listing it occurs, leaves the project with zero pipelines and the run
\* going on: the run is never aborted by it.
C12_FailureIsolation ==
    failure \in { "list", "next" } => (pc = "pipeline" /\ found = << >>)

\* The part of C12 the code keeps: a failure of the list call itself is
\* caught, the project has zero pipelines and the outer loop goes on.
ListFailureIsolated ==
    failure = "list" => (pc = "pipeline" /\ found = << >> /\ q = 0)

\* C13: the job list of a pipeline is requested if and only if its status is
\* neither success nor canceled and job listings are not suppressed entirely.
C13_JobsRequestedIff ==
    PipelineHandled =>
        (jobs_requested <=>
            (/\ Handled.status \notin { "success", "canceled" }
             /\ ~run_config.failed_hide_jobs_all))

C13_Witness ==
    /\ PipelineHandled
    /\ failure = "none"
    /\ p = 2
    /\ Handled.status = "failed"
    /\ jobs_requested
    /\ Len(remote_jobs) = MaxJobs

\* C20 is below; the canceled pipeline of a verbose run, left without request.
CanceledNotRequested ==
    /\ PipelineHandled
    /\ Handled.status = "canceled"
    /\ ~run_config.failed_hide_jobs_all
    /\ ~jobs_requested

IsAscendingByCreatedAt(s) ==
    \A i \in 1..(Len(s) - 1) : s[i].created_at <= s[i + 1].created_at

JobsReturned == pc = "pipeline" /\ q >= 1 /\ jobs_requested

NotOkayJobs(remote) ==
    { j \in Range(remote) : j.status \notin { "success", "skipped" } }

\* C14: job discovery returns the jobs in ascending order of creation time;
\* with 'hide okay jobs' exactly the jobs whose status is neither success nor
\* skipped, without it every job; no job twice.
C14_JobSuppressionLaw ==
    JobsReturned =>
        /\ IsAscendingByCreatedAt(jobs)
        /\ Cardinality(Range(jobs)) = Len(jobs)
        /\ Range(jobs) = IF run_config.failed_hide_jobs_okay
                         THEN NotOkayJobs(remote_jobs)
                         ELSE Range(remote_jobs)

C14_Witness ==
    /\ JobsReturned
    /\ run_config.failed_hide_jobs_okay
    /\ Len(remote_jobs) = 3
    /\ remote_jobs[1].status = "failed"
    /\ remote_jobs[2].status = "skipped"
    /\ remote_jobs[3].status = "failed"
    /\ remote_jobs[3].created_at < remote_jobs[1].created_at
    /\ jobs = << remote_jobs[3], remote_jobs[1] >>

\* C20: in a run the command dispatcher started the two suppression flags are
\* equal; without verbose no job list is requested and no link line printed;
\* with verbose every pipeline that is not okay gets its link line and all of
\* its jobs, the successful and the skipped ones included.
C20_VerboseLaw ==
    /\ run_config.failed_hide_jobs_all = run_config.failed_hide_jobs_okay
    /\ run_config.failed_hide_jobs_all = ~args.verbose
    /\ ~args.verbose => (~jobs_requested /\ ~link_shown /\ jobs = << >>)
    /\ (args.verbose /\ PipelineHandled /\ ~is_okay(Handled)) =>
          /\ link_shown
          /\ jobs_requested
          /\ pc = "pipeline" =>
                /\ Range(jobs) = Range(remote_jobs)
                /\ Len(jobs) = Len(remote_jobs)

C20_Witness ==
    /\ args.verbose
    /\ pc = "pipeline"
    /\ q >= 1
    /\ Handled.status = "failed"
    /\ link_shown
    /\ Len(jobs) = 3
    /\ \E i, j \in 1..3 : jobs[i].status = "success" /\ jobs[j].status = "skipped"

\* The run without verbose that passed a failed pipeline in silence.
QuietRunPassesFailed ==
    /\ ~args.verbose
    /\ PipelineHandled
    /\ Handled.status = "failed"
    /\ ~jobs_requested
    /\ ~link_shown

====
